---------------------------- MODULE Spec2Model ----------------------------
(***************************************************************************)
(* gentlegoose: merging the global gitignore patterns into a Zed settings  *)
(* file.  The module models                                                *)
(*   - the JSON5-like codec of file_handler.py (_parse_json5,              *)
(*     _remove_trailing_commas, json.dumps / json.loads as they are used), *)
(*   - the merge of config_manager.py (_get_patterns_to_add),              *)
(*   - the sync of config_manager.py and the temporary-file writer of      *)
(*     file_handler.py, step by step, on a one-directory file system.      *)
(*                                                                         *)
(* A text is a sequence of characters; a character is a one-character     *)
(* string, except LS, which stands for the single character U+2028.       *)
(***************************************************************************)
EXTENDS Integers, Sequences, FiniteSets, TLC

-----------------------------------------------------------------------------
(* Characters *)

QUOTE == "\""
BSL == "\\"
NL == "\n"
CR == "\r"
TAB == "\t"
\* U+2028 LINE SEPARATOR: str.splitlines() breaks on it, str.isspace() is true
\* of it, json.dumps(ensure_ascii=False) emits it raw, json.loads accepts it raw.
LS == "LS"

\* The characters str.splitlines() breaks a line on (those of the model's alphabet).
LineBreaks == {NL, CR, LS}

\* The characters str.isspace() is true of (those of the model's alphabet).
PySpace == {" ", TAB, NL, CR, LS}

\* The whitespace json.loads skips between tokens.
JsonWs == {" ", TAB, NL, CR}

\* The characters json.loads (strict) refuses raw inside a string: U+0000..U+001F.
JsonControl == {NL, CR, TAB}

Range(s) == {s[i] : i \in 1..Len(s)}

-----------------------------------------------------------------------------
(* str.splitlines, str.rstrip, str.strip, "\n".join *)

\* One past the end of the line that starts at i.
RECURSIVE LineEnd(_, _)
LineEnd(s, i) ==
    IF i > Len(s) \/ s[i] \in LineBreaks THEN i ELSE LineEnd(s, i + 1)

\* The lines of s from position i on: "\r\n" is one break, and a break at the
\* very end of the text opens no further line.
RECURSIVE SplitFrom(_, _)
SplitFrom(s, i) ==
    IF i > Len(s) THEN << >>
    ELSE LET e == LineEnd(s, i)
             n == IF e < Len(s) /\ s[e] = CR /\ s[e + 1] = NL THEN e + 2 ELSE e + 1
         IN  << SubSeq(s, i, e - 1) >> \o SplitFrom(s, n)

splitlines(s) == SplitFrom(s, 1)

RECURSIVE rstrip(_)
rstrip(s) ==
    IF s # << >> /\ s[Len(s)] \in PySpace THEN rstrip(SubSeq(s, 1, Len(s) - 1)) ELSE s

\* content.strip() is empty
IsBlank(s) == \A i \in 1..Len(s) : s[i] \in PySpace

RECURSIVE JoinLines(_)
JoinLines(lines) ==
    IF lines = << >> THEN << >>
    ELSE IF Len(lines) = 1 THEN lines[1]
    ELSE lines[1] \o << NL >> \o JoinLines(Tail(lines))

-----------------------------------------------------------------------------
(* _parse_json5: comment stripping, one line at a time.  A for loop over the  *)
(* positions lo..hi of a text is its body folded from left to right over the  *)
(* loop's variables; the fold is split in halves only to keep the evaluation  *)
(* shallow.                                                                   *)

\* A scan in which every backslash opens an escape, a consumed one too.
comment_step_EveryBackslash(line, i, st) ==
    IF st.comment_pos # 0 THEN st
    ELSE IF line[i] = BSL THEN [st EXCEPT !.escaped = TRUE]
    ELSE IF st.escaped THEN [st EXCEPT !.escaped = FALSE]
    ELSE IF line[i] = QUOTE THEN [st EXCEPT !.in_string = ~st.in_string]
    ELSE IF ~st.in_string /\ line[i] = "/" /\ i < Len(line) /\ line[i + 1] = "/"
         THEN [st EXCEPT !.comment_pos = i]
    ELSE st

\* The body of the inner loop of _parse_json5 at position i of original_line;
\* st holds in_string, escaped and comment_pos (0 for None).  After the break
\* (comment_pos set) no further position is looked at.
comment_step(line, i, st) ==
    IF st.comment_pos # 0 THEN st
    ELSE IF st.escaped THEN [st EXCEPT !.escaped = FALSE]
    ELSE IF line[i] = BSL THEN [st EXCEPT !.escaped = TRUE]
    ELSE IF line[i] = QUOTE THEN [st EXCEPT !.in_string = ~st.in_string]
    ELSE IF ~st.in_string /\ line[i] = "/" /\ i < Len(line) /\ line[i + 1] = "/"
         THEN [st EXCEPT !.comment_pos = i]
    ELSE st

RECURSIVE comment_loop(_, _, _, _)
comment_loop(line, lo, hi, st) ==
    IF lo > hi THEN st
    ELSE IF lo = hi THEN comment_step(line, lo, st)
    ELSE LET mid == (lo + hi) \div 2
             left == comment_loop(line, lo, mid, st)
         IN  IF left.comment_pos # 0 THEN left ELSE comment_loop(line, mid + 1, hi, left)

\* A scan that does not track strings: the first "//" anywhere in the line.
find_comment_pos_AnySlashes(line) ==
    LET S == {i \in 1..(Len(line) - 1) : line[i] = "/" /\ line[i + 1] = "/"}
    IN  IF S = {} THEN 0 ELSE CHOOSE i \in S : \A j \in S : i <= j

\* comment_pos after the inner loop, 0 for None.
find_comment_pos(line) ==
    comment_loop(line, 1, Len(line),
                 [in_string |-> FALSE, escaped |-> FALSE, comment_pos |-> 0]).comment_pos

\* processed_line of one original_line
strip_line(line) ==
    LET comment_pos == find_comment_pos(line)
    IN  IF comment_pos = 0 THEN line ELSE rstrip(SubSeq(line, 1, comment_pos - 1))

\* cleaned_content before the trailing commas are removed
strip_comments(content) ==
    LET lines == splitlines(content)
    IN  JoinLines([k \in 1..Len(lines) |-> strip_line(lines[k])])

-----------------------------------------------------------------------------
(* _remove_trailing_commas *)

\* A look-ahead that skips nothing.
SkipSpace_None(content, j) == j

\* The look-ahead: the first position from j on that holds no whitespace.
RECURSIVE SkipSpace(_, _)
SkipSpace(content, j) ==
    IF j <= Len(content) /\ content[j] \in PySpace THEN SkipSpace(content, j + 1) ELSE j

\* The body of the loop of _remove_trailing_commas at position i; st holds
\* in_string, escaped and result.
rtc_step(content, i, st) ==
    IF st.escaped THEN [st EXCEPT !.escaped = FALSE, !.result = @ \o << content[i] >>]
    ELSE IF content[i] = BSL THEN [st EXCEPT !.escaped = TRUE, !.result = @ \o << content[i] >>]
    ELSE IF content[i] = QUOTE
         THEN [st EXCEPT !.in_string = ~st.in_string, !.result = @ \o << content[i] >>]
    ELSE IF /\ ~st.in_string
            /\ content[i] = ","
            /\ LET j == SkipSpace(content, i + 1)
               IN  j <= Len(content) /\ content[j] \in {"}", "]"}
         THEN st
    ELSE [st EXCEPT !.result = @ \o << content[i] >>]

RECURSIVE rtc_loop(_, _, _, _)
rtc_loop(content, lo, hi, st) ==
    IF lo > hi THEN st
    ELSE IF lo = hi THEN rtc_step(content, lo, st)
    ELSE LET mid == (lo + hi) \div 2
             left == rtc_loop(content, lo, mid, st)
         IN  \* the test is always true: it makes the left half be evaluated first
             IF Len(left.result) <= mid THEN rtc_loop(content, mid + 1, hi, left) ELSE left

remove_trailing_commas(content) ==
    rtc_loop(content, 1, Len(content),
             [in_string |-> FALSE, escaped |-> FALSE, result |-> << >>]).result

-----------------------------------------------------------------------------
(* The document tree (what json.loads returns and json.dumps takes).  Every   *)
(* node is a record of the same shape, so that any two nodes compare:         *)
(*   kind  "obj" | "arr" | "str" | "num" | "lit" | "set"                      *)
(*   s     the characters of a "str"; the name of a "lit" (true, false, null, *)
(*         and the float constants NaN, Infinity, -Infinity)                  *)
(*   n     the value of a "num"                                               *)
(*   keys  the keys of an "obj", in insertion order                           *)
(*   items the values of an "obj" (items[i] belongs to keys[i]), the elements *)
(*         of an "arr" or a "set"                                             *)
(* A "set" is a Python set: a value json.dumps cannot encode.                 *)

Str(s) == [kind |-> "str", s |-> s, n |-> 0, keys |-> << >>, items |-> << >>]
Num(n) == [kind |-> "num", s |-> << >>, n |-> n, keys |-> << >>, items |-> << >>]
Lit(name) == [kind |-> "lit", s |-> name, n |-> 0, keys |-> << >>, items |-> << >>]
Arr(items) == [kind |-> "arr", s |-> << >>, n |-> 0, keys |-> << >>, items |-> items]
Obj(keys, items) == [kind |-> "obj", s |-> << >>, n |-> 0, keys |-> keys, items |-> items]
PySet(items) == [kind |-> "set", s |-> << >>, n |-> 0, keys |-> << >>, items |-> items]

TrueChars == << "t", "r", "u", "e" >>
FalseChars == << "f", "a", "l", "s", "e" >>
NullChars == << "n", "u", "l", "l" >>
NaNChars == << "N", "a", "N" >>
InfinityChars == << "I", "n", "f", "i", "n", "i", "t", "y" >>
EmptyObj == Obj(<< >>, << >>)

\* dict[key] = value: an existing key keeps its place, a new key goes last.
DictSet(d, key, value) ==
    IF \E i \in 1..Len(d.keys) : d.keys[i] = key
    THEN LET i == CHOOSE k \in 1..Len(d.keys) : d.keys[k] = key
         IN  [d EXCEPT !.items[i] = value]
    ELSE [d EXCEPT !.keys = @ \o << key >>, !.items = @ \o << value >>]

DictHas(d, key) == \E i \in 1..Len(d.keys) : d.keys[i] = key

DictGet(d, key) == d.items[CHOOSE k \in 1..Len(d.keys) : d.keys[k] = key]

-----------------------------------------------------------------------------
(* json.dumps(settings, indent=2, ensure_ascii=False) *)

DigitChars == << "0", "1", "2", "3", "4", "5", "6", "7", "8", "9" >>

RECURSIVE NatChars(_)
NatChars(n) ==
    IF n < 10 THEN << DigitChars[n + 1] >>
    ELSE NatChars(n \div 10) \o << DigitChars[(n % 10) + 1] >>

IntChars(n) == IF n < 0 THEN << "-" >> \o NatChars(0 - n) ELSE NatChars(n)

\* One character of a string as json.dumps writes it with ensure_ascii=False:
\* only the quote, the backslash and the control characters are escaped.
EscapeChar(c) ==
    CASE c = QUOTE -> << BSL, QUOTE >>
      [] c = BSL -> << BSL, BSL >>
      [] c = NL -> << BSL, "n" >>
      [] c = CR -> << BSL, "r" >>
      [] c = TAB -> << BSL, "t" >>
      [] OTHER -> << c >>

RECURSIVE EscapeFrom(_, _)
EscapeFrom(s, i) ==
    IF i > Len(s) THEN << >> ELSE EscapeChar(s[i]) \o EscapeFrom(s, i + 1)

EncodeString(s) == << QUOTE >> \o EscapeFrom(s, 1) \o << QUOTE >>

RECURSIVE Indent(_)
Indent(level) == IF level = 0 THEN << >> ELSE << " ", " " >> \o Indent(level - 1)

\* Whether json.dumps raises TypeError on the tree: it holds a set.
RECURSIVE Encodable(_)
Encodable(v) ==
    /\ v.kind # "set"
    /\ \A i \in 1..Len(v.items) : Encodable(v.items[i])

RECURSIVE EncodeValue(_, _)
RECURSIVE EncodeItems(_, _, _)
\* The elements of an array or the pairs of an object from index i on, each on
\* its own line at the given level, separated by ",".
EncodeItems(v, i, level) ==
    IF i > Len(v.items) THEN << >>
    ELSE << NL >> \o Indent(level)
         \o (IF v.kind = "obj" THEN EncodeString(v.keys[i]) \o << ":", " " >> ELSE << >>)
         \o EncodeValue(v.items[i], level)
         \o (IF i < Len(v.items) THEN << "," >> ELSE << >>)
         \o EncodeItems(v, i + 1, level)

EncodeValue(v, level) ==
    CASE v.kind = "str" -> EncodeString(v.s)
      [] v.kind = "num" -> IntChars(v.n)
      [] v.kind = "lit" -> v.s
      [] v.kind = "arr" ->
           IF v.items = << >> THEN << "[", "]" >>
           ELSE << "[" >> \o EncodeItems(v, 1, level + 1) \o << NL >> \o Indent(level) \o << "]" >>
      [] v.kind = "obj" ->
           IF v.items = << >> THEN << "{", "}" >>
           ELSE << "{" >> \o EncodeItems(v, 1, level + 1) \o << NL >> \o Indent(level) \o << "}" >>
      [] OTHER -> << >>

json_dumps(v) == EncodeValue(v, 0)

-----------------------------------------------------------------------------
(* json.loads with its defaults, as a recursive-descent parser.  A parse      *)
(* yields [ok, val, pos]: whether it succeeded, the tree, and the position    *)
(* after it.  The model's texts hold no fraction and no exponent, and no \u   *)
(* escape other than those of UnicodeEscapes.                                 *)

Fail == [ok |-> FALSE, val |-> Lit(NullChars), pos |-> 0]
Ok(v, p) == [ok |-> TRUE, val |-> v, pos |-> p]

RECURSIVE SkipWs(_, _)
SkipWs(s, i) == IF i <= Len(s) /\ s[i] \in JsonWs THEN SkipWs(s, i + 1) ELSE i

StartsWith(s, i, w) == i + Len(w) - 1 <= Len(s) /\ SubSeq(s, i, i + Len(w) - 1) = w

\* The character a backslash escape stands for; << >> for an invalid escape.
SimpleEscape(c) ==
    CASE c = QUOTE -> << QUOTE >>
      [] c = BSL -> << BSL >>
      [] c = "/" -> << "/" >>
      [] c = "n" -> << NL >>
      [] c = "r" -> << CR >>
      [] c = "t" -> << TAB >>
      [] OTHER -> << >>

\* The \uXXXX escapes the model's texts use.
UnicodeEscapes == { << << "2", "0", "2", "8" >>, LS >>, << << "0", "0", "0", "a" >>, NL >> }

\* The body of a string from position i on (after the opening quote), acc being
\* the characters decoded so far.
RECURSIVE ParseStringBody(_, _, _)
ParseStringBody(s, i, acc) ==
    IF i > Len(s) THEN Fail
    ELSE IF s[i] = QUOTE THEN Ok(Str(acc), i + 1)
    ELSE IF s[i] \in JsonControl THEN Fail
    ELSE IF s[i] = BSL
         THEN IF i + 1 > Len(s) THEN Fail
              ELSE IF s[i + 1] = "u"
                   THEN IF \E e \in UnicodeEscapes : StartsWith(s, i + 2, e[1])
                        THEN LET e == CHOOSE x \in UnicodeEscapes : StartsWith(s, i + 2, x[1])
                             IN  ParseStringBody(s, i + 6, acc \o << e[2] >>)
                        ELSE Fail
              ELSE IF SimpleEscape(s[i + 1]) = << >> THEN Fail
              ELSE ParseStringBody(s, i + 2, acc \o SimpleEscape(s[i + 1]))
    ELSE ParseStringBody(s, i + 1, acc \o << s[i] >>)

DigitValue(c) == CHOOSE d \in 0..9 : DigitChars[d + 1] = c
IsDigit(c) == c \in Range(DigitChars)

\* The digits from position i on, acc being the value read so far.
RECURSIVE ParseDigits(_, _, _)
ParseDigits(s, i, acc) ==
    IF i <= Len(s) /\ IsDigit(s[i]) THEN ParseDigits(s, i + 1, acc * 10 + DigitValue(s[i]))
    ELSE [n |-> acc, pos |-> i]

\* -?(0|[1-9][0-9]*) at position i
ParseNumber(s, i) ==
    LET neg == i <= Len(s) /\ s[i] = "-"
        j == IF neg THEN i + 1 ELSE i
    IN  IF j > Len(s) \/ ~IsDigit(s[j]) THEN Fail
        ELSE IF s[j] = "0" THEN Ok(Num(0), j + 1)
        ELSE LET d == ParseDigits(s, j, 0)
             IN  Ok(Num(IF neg THEN 0 - d.n ELSE d.n), d.pos)

RECURSIVE ParseValue(_, _)
RECURSIVE ParseElements(_, _, _)
RECURSIVE ParsePairs(_, _, _)

\* The elements of an array from position i on (i at the start of a value), acc
\* being the elements read so far.
ParseElements(s, i, acc) ==
    LET v == ParseValue(s, i)
    IN  IF ~v.ok THEN Fail
        ELSE LET j == SkipWs(s, v.pos)
             IN  IF j > Len(s) THEN Fail
                 ELSE IF s[j] = "]" THEN Ok(Arr(acc \o << v.val >>), j + 1)
                 ELSE IF s[j] # "," THEN Fail
                 ELSE ParseElements(s, SkipWs(s, j + 1), acc \o << v.val >>)

\* The pairs of an object from position i on (i at the quote of a key), acc being
\* the dict built so far.
ParsePairs(s, i, acc) ==
    IF i > Len(s) \/ s[i] # QUOTE THEN Fail
    ELSE LET k == ParseStringBody(s, i + 1, << >>)
         IN  IF ~k.ok THEN Fail
             ELSE LET c == SkipWs(s, k.pos)
                  IN  IF c > Len(s) \/ s[c] # ":" THEN Fail
                      ELSE LET v == ParseValue(s, SkipWs(s, c + 1))
                           IN  IF ~v.ok THEN Fail
                               ELSE LET j == SkipWs(s, v.pos)
                                        d == DictSet(acc, k.val.s, v.val)
                                    IN  IF j > Len(s) THEN Fail
                                        ELSE IF s[j] = "}" THEN Ok(d, j + 1)
                                        ELSE IF s[j] # "," THEN Fail
                                        ELSE ParsePairs(s, SkipWs(s, j + 1), d)

ParseValue(s, i) ==
    IF i > Len(s) THEN Fail
    ELSE IF s[i] = QUOTE THEN ParseStringBody(s, i + 1, << >>)
    ELSE IF s[i] = "{"
         THEN LET j == SkipWs(s, i + 1)
              IN  IF j <= Len(s) /\ s[j] = "}" THEN Ok(EmptyObj, j + 1)
                  ELSE ParsePairs(s, j, EmptyObj)
    ELSE IF s[i] = "["
         THEN LET j == SkipWs(s, i + 1)
              IN  IF j <= Len(s) /\ s[j] = "]" THEN Ok(Arr(<< >>), j + 1)
                  ELSE ParseElements(s, j, << >>)
    ELSE IF StartsWith(s, i, NullChars) THEN Ok(Lit(NullChars), i + 4)
    ELSE IF StartsWith(s, i, TrueChars) THEN Ok(Lit(TrueChars), i + 4)
    ELSE IF StartsWith(s, i, FalseChars) THEN Ok(Lit(FalseChars), i + 5)
    ELSE IF ParseNumber(s, i).ok THEN ParseNumber(s, i)
    \* the constants the decoder takes besides the numbers (parse_constant)
    ELSE IF StartsWith(s, i, NaNChars) THEN Ok(Lit(NaNChars), i + 3)
    ELSE IF StartsWith(s, i, InfinityChars) THEN Ok(Lit(InfinityChars), i + 8)
    ELSE IF StartsWith(s, i, << "-" >> \o InfinityChars)
         THEN Ok(Lit(<< "-" >> \o InfinityChars), i + 9)
    ELSE Fail

\* json.loads(s): ok is FALSE where it raises json.JSONDecodeError.
json_loads(s) ==
    LET v == ParseValue(s, SkipWs(s, 1))
    IN  IF v.ok /\ SkipWs(s, v.pos) = Len(s) + 1 THEN v ELSE Fail

\* _parse_json5(content): ok is FALSE where it raises json.JSONDecodeError.
parse_json5(content) ==
    IF IsBlank(content) THEN Ok(EmptyObj, 1)
    ELSE json_loads(remove_trailing_commas(strip_comments(content)))

-----------------------------------------------------------------------------
(* FileHandler.read_gitignore_patterns *)

RECURSIVE lstrip(_)
lstrip(s) == IF s # << >> /\ s[1] \in PySpace THEN lstrip(Tail(s)) ELSE s

\* original_line.strip()
strip_both(s) == lstrip(rstrip(s))

\* The recursive-match glob marker.
GlobMarker == << "*", "*", "/" >>

\* A reader that prefixes every line it keeps.
patterns_of_line_AlwaysPrefix(original_line) ==
    LET line == strip_both(original_line)
    IN  IF line # << >> /\ line[1] # "#" THEN << GlobMarker \o line >> ELSE << >>

\* The body of the loop of read_gitignore_patterns: what one line appends to
\* patterns, one pattern or none.
patterns_of_line(original_line) ==
    LET line == strip_both(original_line)
    IN  IF line # << >> /\ line[1] # "#"
        THEN IF ~StartsWith(line, 1, GlobMarker) THEN << GlobMarker \o line >> ELSE << line >>
        ELSE << >>

RECURSIVE gitignore_loop(_, _, _)
gitignore_loop(lines, i, acc) ==
    IF i > Len(lines) THEN acc
    ELSE gitignore_loop(lines, i + 1, acc \o patterns_of_line(lines[i]))

\* read_gitignore_patterns(gitignore_path): the empty list for a file that is
\* not there or that cannot be read.
read_gitignore_patterns(f) ==
    IF ~f.exists THEN << >>
    ELSE IF ~f.readable THEN << >>
    ELSE gitignore_loop(splitlines(f.text), 1, << >>)

-----------------------------------------------------------------------------
(* ConfigManager._get_patterns_to_add *)

\* The loop of _get_patterns_to_add from candidate i on, patterns_to_add being
\* the list built so far; current_set is never changed by the loop.
RECURSIVE gpa_loop(_, _, _, _)
gpa_loop(current_set, global_patterns, i, patterns_to_add) ==
    IF i > Len(global_patterns) THEN patterns_to_add
    ELSE IF global_patterns[i] \notin current_set
         THEN gpa_loop(current_set, global_patterns, i + 1,
                       Append(patterns_to_add, global_patterns[i]))
    ELSE gpa_loop(current_set, global_patterns, i + 1, patterns_to_add)

\* A merge that also adds each selected pattern to the set it tests against.
RECURSIVE gpa_loop_SelfDedup(_, _, _, _)
gpa_loop_SelfDedup(current_set, global_patterns, i, patterns_to_add) ==
    IF i > Len(global_patterns) THEN patterns_to_add
    ELSE IF global_patterns[i] \notin current_set
         THEN gpa_loop_SelfDedup(current_set \cup {global_patterns[i]}, global_patterns, i + 1,
                                 Append(patterns_to_add, global_patterns[i]))
    ELSE gpa_loop_SelfDedup(current_set, global_patterns, i + 1, patterns_to_add)

get_patterns_to_add_SelfDedup(current_exclusions, global_patterns) ==
    gpa_loop_SelfDedup(Range(current_exclusions), global_patterns, 1, << >>)

\* A merge that tests against nothing.
get_patterns_to_add_NoFilter(current_exclusions, global_patterns) == global_patterns

\* A merge with the membership test the wrong way round.
RECURSIVE gpa_loop_Inverted(_, _, _, _)
gpa_loop_Inverted(current_set, global_patterns, i, patterns_to_add) ==
    IF i > Len(global_patterns) THEN patterns_to_add
    ELSE IF global_patterns[i] \in current_set
         THEN gpa_loop_Inverted(current_set, global_patterns, i + 1,
                                Append(patterns_to_add, global_patterns[i]))
    ELSE gpa_loop_Inverted(current_set, global_patterns, i + 1, patterns_to_add)

get_patterns_to_add_Inverted(current_exclusions, global_patterns) ==
    gpa_loop_Inverted(Range(current_exclusions), global_patterns, 1, << >>)

get_patterns_to_add(current_exclusions, global_patterns) ==
    gpa_loop(Range(current_exclusions), global_patterns, 1, << >>)

-----------------------------------------------------------------------------
(* The settings documents a first call may find, and the patterns it may be  *)
(* given.                                                                     *)

\* The key _update_zed_settings reads and writes.
FSE ==
    << "f", "i", "l", "e", "_", "s", "c", "a", "n", "_", "e", "x", "c", "l", "u", "s", "i",
       "o", "n", "s" >>

\* a document with comments, trailing commas and nested values:
\*     {
\*       // c
\*       "a": {"n": [1, true,],},
\*       "file_scan_exclusions": ["**/a",], // t
\*       "z": "x//y",
\*     }
Doc_Json5 ==
    << "{", NL, " ", " ", "/", "/", " ", "c", NL, " ", " ", QUOTE, "a", QUOTE, ":", " ",
       "{", QUOTE, "n", QUOTE, ":", " ", "[", "1", ",", " ", "t", "r", "u", "e", ",", "]",
       ",", "}", ",", NL, " ", " ", QUOTE, "f", "i", "l", "e", "_", "s", "c", "a", "n",
       "_", "e", "x", "c", "l", "u", "s", "i", "o", "n", "s", QUOTE, ":", " ", "[", QUOTE,
       "*", "*", "/", "a", QUOTE, ",", "]", ",", " ", "/", "/", " ", "t", NL, " ", " ",
       QUOTE, "z", QUOTE, ":", " ", QUOTE, "x", "/", "/", "y", QUOTE, ",", NL, "}" >>

\* a value holding U+2028, written as an escape:
\*     {"k": "\u2028"}
Doc_EscapedLS ==
    << "{", QUOTE, "k", QUOTE, ":", " ", QUOTE, BSL, "u", "2", "0", "2", "8", QUOTE, "}" >>

\* an exclusion list with a repeated entry, before another key:
\*     {"file_scan_exclusions": ["c", "**/a", "c"], "k": null}
Doc_Duplicates ==
    << "{", QUOTE, "f", "i", "l", "e", "_", "s", "c", "a", "n", "_", "e", "x", "c", "l",
       "u", "s", "i", "o", "n", "s", QUOTE, ":", " ", "[", QUOTE, "c", QUOTE, ",", " ",
       QUOTE, "*", "*", "/", "a", QUOTE, ",", " ", QUOTE, "c", QUOTE, "]", ",", " ", QUOTE,
       "k", QUOTE, ":", " ", "n", "u", "l", "l", "}" >>

\* not valid even after the preprocessing:
\*     {"k": }
Doc_Malformed ==
    << "{", QUOTE, "k", QUOTE, ":", " ", "}" >>

\* whitespace only: a space and a line break
Doc_Blank ==
    << " ", NL >>

\* a document that is no object:
\*     ["x"]
Doc_TopArray ==
    << "[", QUOTE, "x", QUOTE, "]" >>

\* file_scan_exclusions holding a string, not a list:
\*     {"file_scan_exclusions": "c"}
Doc_StringExclusions ==
    << "{", QUOTE, "f", "i", "l", "e", "_", "s", "c", "a", "n", "_", "e", "x", "c", "l",
       "u", "s", "i", "o", "n", "s", QUOTE, ":", " ", QUOTE, "c", QUOTE, "}" >>

\* "**/a" and "**//b" (the ignore line "/b"): patterns as read_gitignore_patterns
\* returns them.
PatternA == << "*", "*", "/", "a" >>
PatternB == << "*", "*", "/", "/", "b" >>

-----------------------------------------------------------------------------
(* State *)

VARIABLES
    \* the file system: the directory of the settings file, the settings file
    \* (the target) and the temporary file of the call in progress
    dir_exists, target, temp,
    \* ConfigManager.dry_run, and the number of calls made so far
    dry_run, calls,
    \* the call in progress or just ended: which entry point ("sync", "write"),
    \* where it stands, its arguments and locals, and how it ended
    call, pc, update_existing, global_patterns, current_settings, patterns_to_add,
    content, outcome,
    \* history: the target when the call began, whether the call renamed its
    \* temporary file onto the target, and the call before it
    target0, moved, prev,
    \* the merge on its own: two lists, the result, and the step reached
    existing, candidates, additions, mstep,
    \* the two scanning passes on their own: a text, the result, and the step reached
    text, scanned, sstep,
    \* the codec on its own: a tree, its encoding, the decoding of that, the step
    tree, encoded, decoded, cstep,
    \* the directory as the call in progress found it
    dir0,
    \* the writer's local temp_dir: the directory it asks its temporary file in
    \* ("parent" for settings_path.parent, "none" before the assignment)
    temp_dir,
    \* the reader of the ignore file on its own: the file, the list returned, the step
    gitignore, patterns, gstep,
    \* two syncs at once on one settings file: the file, the file as it was at the
    \* start, each invocation's position and locals, and the invocation that
    \* renamed last (0 for none)
    race_target, race_target0, proc, last_rename

fsVars == << dir_exists, target, temp >>
callVars ==
    << dry_run, calls, call, pc, update_existing, global_patterns, current_settings,
       patterns_to_add, content, outcome, target0, moved, prev, dir0, temp_dir >>
mergeVars == << existing, candidates, additions, mstep >>
scanVars == << text, scanned, sstep >>
codecVars == << tree, encoded, decoded, cstep >>
ignoreVars == << gitignore, patterns, gstep >>
raceVars == << race_target, race_target0, proc, last_rename >>
vars == << fsVars, callVars, mergeVars, scanVars, codecVars, ignoreVars, raceVars >>

\* A file: absent, or present with its text; readable is FALSE for a file whose
\* read_text raises (OSError, or UnicodeDecodeError on bytes that are not UTF-8).
NoFile == [exists |-> FALSE, readable |-> FALSE, text |-> << >>]
File(t) == [exists |-> TRUE, readable |-> TRUE, text |-> t]
Unreadable(t) == [exists |-> TRUE, readable |-> FALSE, text |-> t]

NoPrev == [call |-> "none", global_patterns |-> << >>, outcome |-> "none"]

\* The values the variables of one part have while another part runs.
MergeIdle ==
    existing = << >> /\ candidates = << >> /\ additions = << >> /\ mstep = "off"
ScanIdle == text = << >> /\ scanned = << >> /\ sstep = "off"
CodecIdle == tree = EmptyObj /\ encoded = << >> /\ decoded = Fail /\ cstep = "off"
IgnoreIdle == gitignore = NoFile /\ patterns = << >> /\ gstep = "off"
RaceIdle ==
    race_target = NoFile /\ race_target0 = NoFile /\ proc = << >> /\ last_rename = 0
MainIdle ==
    /\ dir_exists = TRUE /\ target = NoFile /\ temp = NoFile
    /\ dry_run = FALSE /\ calls = 0 /\ call = "none" /\ pc = "off"
    /\ update_existing = FALSE /\ global_patterns = << >>
    /\ current_settings = EmptyObj /\ patterns_to_add = << >> /\ content = << >>
    /\ outcome = "none" /\ target0 = NoFile /\ moved = FALSE /\ prev = NoPrev
    /\ dir0 = TRUE /\ temp_dir = "none"

-----------------------------------------------------------------------------
(* The sync and the writer, one call after another *)

\* How many calls one behaviour makes.
MaxCalls == 2

InitialTargets ==
    { NoFile, File(<< "{", "}" >>), File(Doc_Json5), File(Doc_EscapedLS),
      File(Doc_Duplicates), File(Doc_Malformed), File(Doc_Blank), File(Doc_TopArray),
      File(Doc_StringExclusions), Unreadable(Doc_Duplicates) }

\* What _get_global_gitignore_patterns may return.
PatternLists ==
    { << >>, << PatternA >>, << PatternB, PatternA >>, << PatternA, PatternA >> }

\* What write_zed_settings may be given when called on its own.
WriteDocs ==
    { Obj(<< FSE >>, << Arr(<< Str(PatternA) >>) >>),
      Obj(<< << "k" >> >>, << PySet(<< Num(1) >>) >>),
      Obj(<< << "k" >> >>, << Str(<< "a", LS >>) >>) }

Init ==
    /\ target \in InitialTargets
    /\ dir_exists \in (IF target.exists THEN {TRUE} ELSE BOOLEAN)
    /\ temp = NoFile
    /\ dry_run \in BOOLEAN
    /\ calls = 0 /\ call = "none" /\ pc = "idle"
    /\ update_existing = FALSE /\ global_patterns = << >>
    /\ current_settings = EmptyObj /\ patterns_to_add = << >> /\ content = << >>
    /\ outcome = "none" /\ target0 = target /\ moved = FALSE /\ prev = NoPrev
    /\ dir0 = dir_exists /\ temp_dir = "none"
    /\ MergeIdle /\ ScanIdle /\ CodecIdle /\ IgnoreIdle /\ RaceIdle

\* A new call may begin when none is in progress.
CanCall == pc \in {"idle", "done"} /\ calls < MaxCalls

\* What a beginning call records: the call before it, and the target it finds.
BeginCall(kind) ==
    /\ calls' = calls + 1
    /\ call' = kind
    /\ prev' = IF pc = "done"
               THEN [call |-> call, global_patterns |-> global_patterns, outcome |-> outcome]
               ELSE NoPrev
    /\ target0' = target
    /\ dir0' = dir_exists
    /\ temp_dir' = "none"
    /\ moved' = FALSE
    /\ patterns_to_add' = << >>
    /\ content' = << >>

\* A sync that goes on to the update whether or not the settings file is there.
sync_global_gitignore_to_zed_NoSkip(upd, pats) ==
    /\ CanCall
    /\ BeginCall("sync")
    /\ update_existing' = upd
    /\ current_settings' = EmptyObj
    /\ global_patterns' = pats
    /\ IF pats = << >>
       THEN outcome' = "no_patterns" /\ pc' = "done"
       ELSE outcome' = "none" /\ pc' = "update"
    /\ UNCHANGED << fsVars, dry_run, mergeVars, scanVars, codecVars, ignoreVars, raceVars >>

\* sync_global_gitignore_to_zed up to the call of _update_zed_settings.  The
\* file system of the model holds a directory and regular files only, so
\* _validate_settings_path returns True.
sync_global_gitignore_to_zed(upd, pats) ==
    /\ CanCall
    /\ BeginCall("sync")
    /\ update_existing' = upd
    /\ current_settings' = EmptyObj
    /\ \/ /\ target.exists /\ ~upd
          /\ global_patterns' = << >>
          /\ outcome' = "skipped" /\ pc' = "done"
       \/ /\ ~(target.exists /\ ~upd)
          /\ global_patterns' = pats
          /\ IF pats = << >>
             THEN outcome' = "no_patterns" /\ pc' = "done"
             ELSE outcome' = "none" /\ pc' = "update"
    /\ UNCHANGED << fsVars, dry_run, mergeVars, scanVars, codecVars, ignoreVars, raceVars >>

\* A reader that lets the failure of read_text leave it as an exception.
read_zed_settings_Strict(f) ==
    IF ~f.exists THEN Ok(EmptyObj, 1)
    ELSE IF ~f.readable THEN Fail
    ELSE parse_json5(f.text)

\* A reader that takes a file it cannot decode for an empty configuration.
read_zed_settings_Lenient(f) ==
    IF ~f.exists \/ ~f.readable \/ ~parse_json5(f.text).ok THEN Ok(EmptyObj, 1)
    ELSE parse_json5(f.text)

\* read_zed_settings(settings_path): ok is FALSE where _parse_json5 raises
\* json.JSONDecodeError, which read_zed_settings does not catch.
read_zed_settings(f) ==
    IF ~f.exists THEN Ok(EmptyObj, 1)
    ELSE IF ~f.readable THEN Ok(EmptyObj, 1)
    ELSE parse_json5(f.text)

\* The elements Python iterates over in a value: of a list its elements, of a
\* dict its keys, of a str its characters.
PyIter(v) ==
    CASE v.kind = "arr" -> v.items
      [] v.kind = "obj" -> [i \in 1..Len(v.keys) |-> Str(v.keys[i])]
      [] v.kind = "str" -> [i \in 1..Len(v.s) |-> Str(<< v.s[i] >>)]
      [] OTHER -> << >>

\* Whether set(v) raises TypeError: v is not iterable or holds an unhashable element.
SetRaises(v) ==
    \/ v.kind \in {"num", "lit"}
    \/ v.kind = "arr" /\ \E i \in 1..Len(v.items) : v.items[i].kind \in {"arr", "obj", "set"}

\* current_settings.get("file_scan_exclusions", [])
current_exclusions_of(settings) ==
    IF DictHas(settings, FSE) THEN DictGet(settings, FSE) ELSE Arr(<< >>)

\* A list built with the new patterns first.
new_exclusions_Prepend(current_exclusions, to_add) == Arr(to_add \o current_exclusions.items)

\* new_exclusions = current_exclusions + patterns_to_add
new_exclusions(current_exclusions, to_add) == Arr(current_exclusions.items \o to_add)

\* A settings document rebuilt from the exclusion list alone.
set_exclusions_Fresh(settings, exclusions) == Obj(<< FSE >>, << exclusions >>)

\* current_settings["file_scan_exclusions"] = new_exclusions
set_exclusions(settings, exclusions) == DictSet(settings, FSE, exclusions)

PatternNodes(pats) == [i \in 1..Len(pats) |-> Str(pats[i])]

\* An update that does not look at dry_run.
update_read_NoDryRun ==
    /\ pc = "update"
    /\ LET rd == read_zed_settings(target)
           cur == current_exclusions_of(rd.val)
           to_add == get_patterns_to_add(PyIter(cur), PatternNodes(global_patterns))
       IN  \/ /\ ~rd.ok \/ rd.val.kind # "obj" \/ SetRaises(cur)
              /\ outcome' = "raised" /\ pc' = "done"
              /\ UNCHANGED << current_settings, patterns_to_add >>
           \/ /\ rd.ok /\ rd.val.kind = "obj" /\ ~SetRaises(cur)
              /\ patterns_to_add' = to_add
              /\ IF to_add = << >>
                 THEN /\ outcome' = "up_to_date" /\ pc' = "done"
                      /\ current_settings' = rd.val
                 ELSE IF cur.kind # "arr"
                 THEN /\ outcome' = "raised" /\ pc' = "done"
                      /\ current_settings' = rd.val
                 ELSE /\ outcome' = "none" /\ pc' = "mkdir"
                      /\ current_settings' = set_exclusions(rd.val, new_exclusions(cur, to_add))
    /\ UNCHANGED << fsVars, dry_run, calls, call, update_existing, global_patterns, content,
                    target0, moved, prev, dir0, temp_dir, mergeVars, scanVars, codecVars,
                    ignoreVars, raceVars >>

\* _update_zed_settings up to the mkdir: the read, the merge, and the returns
\* and exceptions that come before any write.
update_read ==
    /\ pc = "update"
    /\ LET rd == read_zed_settings(target)
           cur == current_exclusions_of(rd.val)
           to_add == get_patterns_to_add(PyIter(cur), PatternNodes(global_patterns))
       IN  \/ \* JSONDecodeError from the read; AttributeError on .get of a non-dict;
              \* TypeError from set() of the exclusions
              /\ ~rd.ok \/ rd.val.kind # "obj" \/ SetRaises(cur)
              /\ outcome' = "raised" /\ pc' = "done"
              /\ UNCHANGED << current_settings, patterns_to_add >>
           \/ /\ rd.ok /\ rd.val.kind = "obj" /\ ~SetRaises(cur)
              /\ patterns_to_add' = to_add
              /\ IF to_add = << >>
                 THEN /\ outcome' = "up_to_date" /\ pc' = "done"
                      /\ current_settings' = rd.val
                 ELSE IF dry_run
                 THEN /\ outcome' = "dry_run" /\ pc' = "done"
                      /\ current_settings' = rd.val
                 ELSE IF cur.kind # "arr"
                 THEN \* TypeError from current_exclusions + patterns_to_add
                      /\ outcome' = "raised" /\ pc' = "done"
                      /\ current_settings' = rd.val
                 ELSE /\ outcome' = "none" /\ pc' = "mkdir"
                      /\ current_settings' = set_exclusions(rd.val, new_exclusions(cur, to_add))
    /\ UNCHANGED << fsVars, dry_run, calls, call, update_existing, global_patterns, content,
                    target0, moved, prev, dir0, temp_dir, mergeVars, scanVars, codecVars,
                    ignoreVars, raceVars >>

\* An update that goes on to the write without making the directory.
mkdir_parent_Skip ==
    /\ pc = "mkdir"
    /\ pc' = "create_temp"
    /\ UNCHANGED << fsVars, dry_run, calls, call, update_existing, global_patterns,
                    current_settings, patterns_to_add, content, outcome, target0, moved, prev,
                    dir0, temp_dir, mergeVars, scanVars, codecVars, ignoreVars, raceVars >>

\* settings_path.parent.mkdir(parents=True, exist_ok=True); an OSError is not caught.
mkdir_parent ==
    /\ pc = "mkdir"
    /\ \/ dir_exists' = TRUE /\ pc' = "create_temp" /\ UNCHANGED outcome
       \/ ~dir_exists /\ UNCHANGED dir_exists /\ outcome' = "raised" /\ pc' = "done"
    /\ UNCHANGED << target, temp, dry_run, calls, call, update_existing, global_patterns,
                    current_settings, patterns_to_add, content, target0, moved, prev, dir0,
                    temp_dir, mergeVars, scanVars, codecVars, ignoreVars, raceVars >>

\* write_zed_settings called on its own.
write_zed_settings(settings) ==
    /\ CanCall
    /\ BeginCall("write")
    /\ update_existing' = FALSE
    /\ global_patterns' = << >>
    /\ current_settings' = settings
    /\ outcome' = "none" /\ pc' = "create_temp"
    /\ UNCHANGED << fsVars, dry_run, mergeVars, scanVars, codecVars, ignoreVars, raceVars >>

UnchangedByWriter ==
    UNCHANGED << dir_exists, dry_run, calls, call, update_existing, global_patterns,
                 current_settings, patterns_to_add, target0, prev, dir0, temp_dir,
                 mergeVars, scanVars, codecVars, ignoreVars, raceVars >>

\* temp_dir = settings_path.parent, then
\* tempfile.NamedTemporaryFile(dir=temp_dir, delete=False): an empty file in
\* that directory, or OSError (always, when the directory is missing) with
\* temp_path still None.
create_temp ==
    /\ pc = "create_temp"
    /\ temp_dir' = "parent"
    /\ \/ dir_exists /\ temp' = File(<< >>) /\ pc' = "dumps" /\ UNCHANGED outcome
       \/ UNCHANGED temp /\ outcome' = "failed" /\ pc' = "done"
    /\ UNCHANGED << target, content, moved >>
    /\ UNCHANGED << dir_exists, dry_run, calls, call, update_existing, global_patterns,
                    current_settings, patterns_to_add, target0, prev, dir0,
                    mergeVars, scanVars, codecVars, ignoreVars, raceVars >>

\* An encoder that raises on nothing and writes what it can.
dumps_Unchecked ==
    /\ pc = "dumps"
    /\ content' = json_dumps(current_settings) /\ pc' = "write"
    /\ UNCHANGED << target, temp, outcome, moved >>
    /\ UnchangedByWriter

\* content = json.dumps(settings, indent=2, ensure_ascii=False), or TypeError
dumps ==
    /\ pc = "dumps"
    /\ IF Encodable(current_settings)
       THEN content' = json_dumps(current_settings) /\ pc' = "write"
       ELSE UNCHANGED content /\ pc' = "cleanup"
    /\ UNCHANGED << target, temp, outcome, moved >>
    /\ UnchangedByWriter

FirstPart(t) == SubSeq(t, 1, Len(t) \div 2)

\* A writer that writes the settings file in place.
write_temp_InPlace ==
    /\ pc = "write"
    /\ target' = File(FirstPart(content))
    /\ pc' = "flush"
    /\ UNCHANGED << temp, content, outcome, moved >>
    /\ UnchangedByWriter

\* temp_file.write(content): a first part of the content reaches the file.
write_temp ==
    /\ pc = "write"
    /\ temp' = [temp EXCEPT !.text = FirstPart(content)]
    /\ pc' = "flush"
    /\ UNCHANGED << target, content, outcome, moved >>
    /\ UnchangedByWriter

\* temp_file.flush() and the close: the rest reaches the file, or OSError.
flush_temp ==
    /\ pc = "flush"
    /\ \/ temp' = [temp EXCEPT !.text = content] /\ pc' = "validate"
       \/ UNCHANGED temp /\ pc' = "cleanup"
    /\ UNCHANGED << target, content, outcome, moved >>
    /\ UnchangedByWriter

\* A validation that lets every temporary file through.
validate_temp_Always ==
    /\ pc = "validate"
    /\ pc' = "move"
    /\ UNCHANGED << target, temp, content, outcome, moved >>
    /\ UnchangedByWriter

\* self._parse_json5(temp_path.read_text()): on JSONDecodeError, or on OSError
\* from the read, the temporary file is unlinked and False returned.
validate_temp ==
    /\ pc = "validate"
    /\ \/ /\ parse_json5(temp.text).ok
          /\ pc' = "move" /\ UNCHANGED << temp, outcome >>
       \/ temp' = NoFile /\ outcome' = "failed" /\ pc' = "done"
    /\ UNCHANGED << target, content, moved >>
    /\ UnchangedByWriter

\* shutil.move(temp_path, settings_path) within one directory: os.rename, which
\* replaces the target in one step, or OSError.
move_temp ==
    /\ pc = "move"
    /\ \/ /\ target' = File(temp.text) /\ temp' = NoFile
          /\ moved' = TRUE /\ outcome' = "written" /\ pc' = "done"
       \/ UNCHANGED << target, temp, moved, outcome >> /\ pc' = "cleanup"
    /\ UNCHANGED content
    /\ UnchangedByWriter

\* A handler that returns False and leaves the temporary file where it is.
cleanup_Keep ==
    /\ pc = "cleanup"
    /\ outcome' = "failed" /\ pc' = "done"
    /\ UNCHANGED << target, temp, content, moved >>
    /\ UnchangedByWriter

\* The handler of (OSError, UnicodeEncodeError, TypeError): the temporary file
\* is unlinked and False returned.
cleanup ==
    /\ pc = "cleanup"
    /\ temp' = NoFile /\ outcome' = "failed" /\ pc' = "done"
    /\ UNCHANGED << target, content, moved >>
    /\ UnchangedByWriter

\* The process is killed in the middle of a call; the files stay as they are.
crash ==
    /\ pc \in {"update", "mkdir", "create_temp", "dumps", "write", "flush", "validate",
               "move", "cleanup"}
    /\ pc' = "crashed"
    /\ UNCHANGED << target, temp, content, outcome, moved >>
    /\ UnchangedByWriter

Next ==
    \/ \E upd \in BOOLEAN, pats \in PatternLists : sync_global_gitignore_to_zed(upd, pats)
    \/ update_read
    \/ mkdir_parent
    \/ \E settings \in WriteDocs : write_zed_settings(settings)
    \/ create_temp
    \/ dumps
    \/ write_temp
    \/ flush_temp
    \/ validate_temp
    \/ move_temp
    \/ cleanup
    \/ crash

Spec == Init /\ [][Next]_vars

-----------------------------------------------------------------------------
(* The merge on its own: two lists, the merge, the append of                  *)
(* _update_zed_settings, and the merge again.                                 *)

\* How long the two lists get.
MaxListLen == 3

MergeLists == UNION {[1..n -> {"a", "b", "c"}] : n \in 0..MaxListLen}

MergeInit ==
    /\ existing \in MergeLists
    /\ candidates \in MergeLists
    /\ additions = << >>
    /\ mstep = "start"
    /\ MainIdle /\ ScanIdle /\ CodecIdle /\ IgnoreIdle /\ RaceIdle

\* patterns_to_add = self._get_patterns_to_add(current_exclusions, global_patterns)
merge ==
    /\ mstep = "start"
    /\ additions' = get_patterns_to_add(existing, candidates)
    /\ mstep' = "merged"
    /\ UNCHANGED << existing, candidates, fsVars, callVars, scanVars, codecVars, ignoreVars, raceVars >>

\* new_exclusions = current_exclusions + patterns_to_add
append_additions ==
    /\ mstep = "merged"
    /\ existing' = existing \o additions
    /\ mstep' = "appended"
    /\ UNCHANGED << candidates, additions, fsVars, callVars, scanVars, codecVars, ignoreVars, raceVars >>

\* The merge of the next sync, on the list as written.
merge_again ==
    /\ mstep = "appended"
    /\ additions' = get_patterns_to_add(existing, candidates)
    /\ mstep' = "remerged"
    /\ UNCHANGED << existing, candidates, fsVars, callVars, scanVars, codecVars, ignoreVars, raceVars >>

MergeNext == merge \/ append_additions \/ merge_again

SpecMerge == MergeInit /\ [][MergeNext]_vars

\* The syncs and the merge on its own, side by side.
SpecIdempotence == (Init \/ MergeInit) /\ [][Next \/ MergeNext]_vars

-----------------------------------------------------------------------------
(* The two scanning passes on their own, each applied to a text. *)

\* How long the texts get that are tried exhaustively.
MaxTextLen == 5

TextsOver(alphabet) == UNION {[1..n -> alphabet] : n \in 0..MaxTextLen}

\* "a//b" // c
Text_CommentAfterString ==
    << QUOTE, "a", "/", "/", "b", QUOTE, " ", "/", "/", " ", "c" >>

\* "\\"// c
Text_EscapedBackslash ==
    << QUOTE, BSL, BSL, QUOTE, "/", "/", " ", "c" >>

\* "\"// c"
Text_EscapedQuote ==
    << QUOTE, BSL, QUOTE, "/", "/", " ", "c", QUOTE >>

\* ["a,]", 1, ]
Text_CommaInString ==
    << "[", QUOTE, "a", ",", "]", QUOTE, ",", " ", "1", ",", " ", "]" >>

\* {"a": [1,],}
Text_NestedCommas ==
    << "{", QUOTE, "a", QUOTE, ":", " ", "[", "1", ",", "]", ",", "}" >>

\* { // comment\n "a": 1, }
Text_Scenario2 ==
    << "{", " ", "/", "/", " ", "c", "o", "m", "m", "e", "n", "t", NL, " ", QUOTE, "a",
       QUOTE, ":", " ", "1", ",", " ", "}" >>

SampleTexts ==
    { Text_CommentAfterString, Text_EscapedBackslash, Text_EscapedQuote,
      Text_CommaInString, Text_NestedCommas, Text_Scenario2, Doc_Json5 }

StripInit ==
    /\ text \in TextsOver({QUOTE, BSL, "/", " ", "a", NL}) \cup SampleTexts
    /\ scanned = << >>
    /\ sstep = "start"
    /\ MainIdle /\ MergeIdle /\ CodecIdle /\ IgnoreIdle /\ RaceIdle

\* The first pass of _parse_json5: the lines without their comments, joined.
strip ==
    /\ sstep = "start"
    /\ scanned' = strip_comments(text)
    /\ sstep' = "stripped"
    /\ UNCHANGED << text, fsVars, callVars, mergeVars, codecVars, ignoreVars, raceVars >>

\* The second pass, on the result of the first.
strip_then_remove ==
    /\ sstep = "stripped"
    /\ scanned' = remove_trailing_commas(scanned)
    /\ sstep' = "cleaned"
    /\ UNCHANGED << text, fsVars, callVars, mergeVars, codecVars, ignoreVars, raceVars >>

SpecStrip == StripInit /\ [][strip \/ strip_then_remove]_vars

CommasInit ==
    /\ text \in TextsOver({QUOTE, BSL, ",", "}", "]", " "}) \cup SampleTexts
    /\ scanned = << >>
    /\ sstep = "start"
    /\ MainIdle /\ MergeIdle /\ CodecIdle /\ IgnoreIdle /\ RaceIdle

\* _remove_trailing_commas(content)
remove ==
    /\ sstep = "start"
    /\ scanned' = remove_trailing_commas(text)
    /\ sstep' = "removed"
    /\ UNCHANGED << text, fsVars, callVars, mergeVars, codecVars, ignoreVars, raceVars >>

SpecCommas == CommasInit /\ [][remove]_vars

-----------------------------------------------------------------------------
(* The codec on its own: a tree encoded as write_zed_settings encodes it and *)
(* the text decoded as read_zed_settings and the validation decode it.       *)

\* How long the strings of the trees get.
MaxStrLen == 2

CodecStrings ==
    UNION {[1..n -> {"a", QUOTE, BSL, NL, LS, "/", ","}] : n \in 0..MaxStrLen}

CodecScalars ==
    {Str(s) : s \in CodecStrings}
        \cup {Num(n) : n \in {0, 12, -3}}
        \cup {Lit(TrueChars), Lit(FalseChars), Lit(NullChars)}

\* The scalars that stand inside the containers.
CodecLeaves ==
    { Str(<< >>), Str(<< "a", LS >>), Str(<< "/", "/" >>), Str(<< ",", "]" >>),
      Str(<< BSL, QUOTE >>), Num(12), Lit(NullChars) }

CodecTrees ==
    CodecScalars
        \cup {Arr(items) : items \in UNION {[1..n -> CodecLeaves] : n \in 0..2}}
        \cup {Obj(<< k >>, << v >>) : k \in {s \in CodecStrings : Len(s) <= 1}, v \in CodecLeaves}
        \cup {Obj(<< << "b" >>, << "a" >> >>, << Arr(<< v >>), Obj(<< FSE >>, << Arr(<< w >>) >>) >>) :
                v \in CodecLeaves, w \in CodecLeaves}

CodecInit ==
    /\ tree \in CodecTrees
    /\ encoded = << >>
    /\ decoded = Fail
    /\ cstep = "start"
    /\ MainIdle /\ MergeIdle /\ ScanIdle /\ IgnoreIdle /\ RaceIdle

\* json.dumps(settings, indent=2, ensure_ascii=False)
encode ==
    /\ cstep = "start"
    /\ encoded' = json_dumps(tree)
    /\ cstep' = "encoded"
    /\ UNCHANGED << tree, decoded, fsVars, callVars, mergeVars, scanVars, ignoreVars, raceVars >>

\* _parse_json5 on the text the encoder produced
decode ==
    /\ cstep = "encoded"
    /\ decoded' = parse_json5(encoded)
    /\ cstep' = "decoded"
    /\ UNCHANGED << tree, encoded, fsVars, callVars, mergeVars, scanVars, ignoreVars, raceVars >>

SpecCodec == CodecInit /\ [][encode \/ decode]_vars

-----------------------------------------------------------------------------
(* The reader of the ignore file on its own. *)

\* node_modules/, **/dist/, # comment, an empty line (scenario 5), and a line
\* with spaces around it.
Text_Scenario5 ==
    << "n", "o", "d", "e", "_", "m", "o", "d", "u", "l", "e", "s", "/", NL,
       "*", "*", "/", "d", "i", "s", "t", "/", NL,
       "#", " ", "c", "o", "m", "m", "e", "n", "t", NL,
       NL,
       " ", " ", "*", ".", "l", "o", "g", " ", CR, NL >>

IgnoreFiles ==
    {NoFile, File(Text_Scenario5), Unreadable(Text_Scenario5)}
        \cup {File(t) : t \in TextsOver({"*", "/", "#", " ", "a", NL})}

IgnoreInit ==
    /\ gitignore \in IgnoreFiles
    /\ patterns = << >>
    /\ gstep = "start"
    /\ MainIdle /\ MergeIdle /\ ScanIdle /\ CodecIdle /\ RaceIdle

\* patterns = read_gitignore_patterns(gitignore_path)
read_patterns ==
    /\ gstep = "start"
    /\ patterns' = read_gitignore_patterns(gitignore)
    /\ gstep' = "read"
    /\ UNCHANGED << gitignore, fsVars, callVars, mergeVars, scanVars, codecVars, raceVars >>

SpecIgnore == IgnoreInit /\ [][read_patterns]_vars

-----------------------------------------------------------------------------
(* The two passes side by side: each applied to the same text of quotes,     *)
(* backslashes, slashes, commas and closing braces.                          *)

\* "\\",}
Text_CommaAfterEscapedBackslash == << QUOTE, BSL, BSL, QUOTE, ",", "}" >>

\* "\",}"
Text_CommaAfterEscapedQuote == << QUOTE, BSL, QUOTE, ",", "}", QUOTE >>

TrackingInit ==
    /\ text \in TextsOver({QUOTE, BSL, "/", ",", "}"})
                    \cup { Text_EscapedBackslash, Text_EscapedQuote,
                           Text_CommaAfterEscapedBackslash, Text_CommaAfterEscapedQuote }
    /\ scanned = << >>
    /\ sstep = "start"
    /\ MainIdle /\ MergeIdle /\ CodecIdle /\ IgnoreIdle /\ RaceIdle

SpecTracking == TrackingInit /\ [][strip \/ remove]_vars

-----------------------------------------------------------------------------
(* The decoder on its own, applied to a text. *)

\* How long the texts get that are decoded exhaustively.
MaxDecodeLen == 4

\* // c
Text_CommentOnly == << "/", "/", " ", "c" >>

\* {"a": NaN}
Text_NaN == << "{", QUOTE, "a", QUOTE, ":", " ", "N", "a", "N", "}" >>

\* [-Infinity, 12,]
Text_Infinity ==
    << "[", "-" >> \o InfinityChars \o << ",", " ", "1", "2", ",", "]" >>

DecodeTexts ==
    UNION {[1..n -> {"[", "]", ",", "1", "/", " ", NL, "N", "a"}] : n \in 0..MaxDecodeLen}
        \cup { Text_CommentOnly, Text_NaN, Text_Infinity, Text_Scenario2, Doc_Json5,
               Doc_Malformed, Doc_Blank, << LS >>, << " ", "/", "/", NL >> }

DecodeInit ==
    /\ text \in DecodeTexts
    /\ scanned = << >>
    /\ sstep = "start"
    /\ tree = EmptyObj /\ encoded = << >> /\ decoded = Fail /\ cstep = "off"
    /\ MainIdle /\ MergeIdle /\ IgnoreIdle /\ RaceIdle

\* _parse_json5(content)
decode_text ==
    /\ sstep = "start"
    /\ decoded' = parse_json5(text)
    /\ sstep' = "decoded"
    /\ UNCHANGED << text, scanned, tree, encoded, cstep, fsVars, callVars, mergeVars,
                    ignoreVars, raceVars >>

SpecDecode == DecodeInit /\ [][decode_text]_vars

-----------------------------------------------------------------------------
(* Two syncs at once, both with update_existing, on one settings file whose  *)
(* directory is there.  Each invocation is a process of its own, with its    *)
(* own locals and its own temporary file (NamedTemporaryFile picks a fresh   *)
(* name); the steps of the two interleave freely, no lock being taken.       *)

Procs == {1, 2}

RaceTargets == { NoFile, File(<< "{", "}" >>), File(Doc_Duplicates) }

RacePatternLists == { << PatternA >>, << PatternB >>, << PatternB, PatternA >> }

Starting(pats) ==
    [pc |-> "update", global_patterns |-> pats, found |-> NoFile,
     current_settings |-> EmptyObj, content |-> << >>, temp |-> NoFile, outcome |-> "none"]

RaceInit ==
    /\ race_target \in RaceTargets
    /\ race_target0 = race_target
    /\ proc \in [Procs -> {Starting(pats) : pats \in RacePatternLists}]
    /\ last_rename = 0
    /\ MainIdle /\ MergeIdle /\ ScanIdle /\ CodecIdle /\ IgnoreIdle

RaceFrame == UNCHANGED << fsVars, callVars, mergeVars, scanVars, codecVars, ignoreVars >>

\* _update_zed_settings of invocation p up to the write: the read of the
\* settings file as it is now, and the merge.
race_update(p) ==
    /\ proc[p].pc = "update"
    /\ LET rd == read_zed_settings(race_target)
           cur == current_exclusions_of(rd.val)
           to_add == get_patterns_to_add(PyIter(cur), PatternNodes(proc[p].global_patterns))
       IN  proc' = [proc EXCEPT ![p] =
               IF ~rd.ok \/ rd.val.kind # "obj" \/ SetRaises(cur)
               THEN [@ EXCEPT !.pc = "done", !.outcome = "raised", !.found = race_target]
               ELSE IF to_add = << >>
               THEN [@ EXCEPT !.pc = "done", !.outcome = "up_to_date", !.found = race_target,
                              !.current_settings = rd.val]
               ELSE IF cur.kind # "arr"
               THEN [@ EXCEPT !.pc = "done", !.outcome = "raised", !.found = race_target,
                              !.current_settings = rd.val]
               ELSE [@ EXCEPT !.pc = "create_temp", !.found = race_target,
                              !.current_settings =
                                  set_exclusions(rd.val, new_exclusions(cur, to_add))]]
    /\ UNCHANGED << race_target, race_target0, last_rename >>
    /\ RaceFrame

\* tempfile.NamedTemporaryFile of invocation p
race_create_temp(p) ==
    /\ proc[p].pc = "create_temp"
    /\ proc' = [proc EXCEPT ![p].temp = File(<< >>), ![p].pc = "dumps"]
    /\ UNCHANGED << race_target, race_target0, last_rename >>
    /\ RaceFrame

\* content = json.dumps(settings, indent=2, ensure_ascii=False)
race_dumps(p) ==
    /\ proc[p].pc = "dumps"
    /\ proc' = [proc EXCEPT ![p].content = json_dumps(proc[p].current_settings),
                            ![p].pc = "write"]
    /\ UNCHANGED << race_target, race_target0, last_rename >>
    /\ RaceFrame

\* An invocation that writes the settings file in place.
race_write_InPlace(p) ==
    /\ proc[p].pc = "write"
    /\ race_target' = File(FirstPart(proc[p].content))
    /\ proc' = [proc EXCEPT ![p].pc = "flush"]
    /\ UNCHANGED << race_target0, last_rename >>
    /\ RaceFrame

\* temp_file.write(content): a first part of the content reaches the file.
race_write(p) ==
    /\ proc[p].pc = "write"
    /\ proc' = [proc EXCEPT ![p].temp.text = FirstPart(proc[p].content), ![p].pc = "flush"]
    /\ UNCHANGED << race_target, race_target0, last_rename >>
    /\ RaceFrame

\* temp_file.flush() and the close: the rest reaches the file.
race_flush(p) ==
    /\ proc[p].pc = "flush"
    /\ proc' = [proc EXCEPT ![p].temp.text = proc[p].content, ![p].pc = "validate"]
    /\ UNCHANGED << race_target, race_target0, last_rename >>
    /\ RaceFrame

\* self._parse_json5(temp_path.read_text())
race_validate(p) ==
    /\ proc[p].pc = "validate"
    /\ proc' = [proc EXCEPT ![p] =
           IF parse_json5(proc[p].temp.text).ok
           THEN [@ EXCEPT !.pc = "move"]
           ELSE [@ EXCEPT !.pc = "done", !.outcome = "failed", !.temp = NoFile]]
    /\ UNCHANGED << race_target, race_target0, last_rename >>
    /\ RaceFrame

\* shutil.move(temp_path, settings_path): the rename of invocation p
race_move(p) ==
    /\ proc[p].pc = "move"
    /\ race_target' = File(proc[p].temp.text)
    /\ last_rename' = p
    /\ proc' = [proc EXCEPT ![p].temp = NoFile, ![p].pc = "done", ![p].outcome = "written"]
    /\ UNCHANGED race_target0
    /\ RaceFrame

RaceNext ==
    \E p \in Procs :
        \/ race_update(p)
        \/ race_create_temp(p)
        \/ race_dumps(p)
        \/ race_write(p)
        \/ race_flush(p)
        \/ race_validate(p)
        \/ race_move(p)

SpecRace == RaceInit /\ [][RaceNext]_vars

-----------------------------------------------------------------------------
(* Claims about the sync and the writer (Spec) *)

IsOther(k) == k # FSE
OtherKeys(d) == SelectSeq(d.keys, IsOther)

\* A sync that has just renamed its document onto the target.
SyncWrote == pc = "done" /\ call = "sync" /\ outcome = "written"

\* The document a sync found: the call began on a file that can be read.  (A
\* file that is there and cannot be read holds no document for the sync.)
FoundDocument == target0.exists /\ target0.readable

\* C2: after a sync that found a decodable document and wrote, decoding the
\* written file gives an object whose keys other than file_scan_exclusions are
\* those of the document found, in the same order and with the same values,
\* and whose key sequence differs at most by file_scan_exclusions at the end.
C2_NoDataLoss ==
    (SyncWrote /\ FoundDocument) =>
        LET old == parse_json5(target0.text).val
            new == parse_json5(target.text)
        IN  /\ new.ok /\ new.val.kind = "obj"
            /\ OtherKeys(new.val) = OtherKeys(old)
            /\ \A i \in 1..Len(old.keys) :
                   IsOther(old.keys[i]) => DictGet(new.val, old.keys[i]) = old.items[i]
            /\ new.val.keys = IF DictHas(old, FSE) THEN old.keys ELSE old.keys \o << FSE >>
            /\ DictGet(new.val, FSE) # current_exclusions_of(old)

\* C2 witness: the sync rewrote the document with comments and nested values.
C2_Witness ==
    SyncWrote /\ target0 = File(Doc_Json5) /\ update_existing /\ target # target0

\* The exclusion list of the document in file f (empty without a document or
\* without the key).
ListIn(f) ==
    IF f.exists /\ f.readable
    THEN current_exclusions_of(parse_json5(f.text).val).items
    ELSE << >>

\* The candidates that are in no position of list e, in candidate order.
NotIn(e, cands) ==
    LET Missing(p) == \A i \in 1..Len(e) : e[i] # p
    IN  SelectSeq(cands, Missing)

\* C4: the list a sync wrote is the list it found (all of it, in order, with
\* its repetitions) followed by the candidates that were missing from it, in
\* candidate order; on an absent target it is the merge over the empty list.
C4_OrderPreserved ==
    SyncWrote =>
        LET found == ListIn(target0)
            written == ListIn(target)
        IN  /\ Len(written) >= Len(found)
            /\ SubSeq(written, 1, Len(found)) = found
            /\ SubSeq(written, Len(found) + 1, Len(written))
                   = NotIn(found, PatternNodes(global_patterns))
            /\ ~target0.exists => written = NotIn(<< >>, PatternNodes(global_patterns))

\* C4 witness: a list with a repeated entry got two candidates, one of them new.
C4_Witness ==
    /\ SyncWrote /\ target0 = File(Doc_Duplicates)
    /\ global_patterns = << PatternB, PatternA >>
    /\ Len(ListIn(target)) = 4

\* A sync with update_existing that follows a sync of the same candidates which
\* wrote or had nothing to add.
SecondSync ==
    /\ call = "sync" /\ update_existing
    /\ prev.call = "sync" /\ prev.outcome \in {"written", "up_to_date"}
    /\ prev.global_patterns = global_patterns

\* C5: merging the same candidates again, once the additions have been
\* appended, adds nothing; and so a second sync of the same candidates never
\* gets to the write: no temporary file, no rename, the target as it was, and
\* it returns having found every pattern present.
C5_Idempotent ==
    /\ mstep = "remerged" => additions = << >>
    /\ SecondSync =>
           /\ target = target0 /\ ~moved /\ temp = NoFile
           /\ pc \in {"update", "done", "crashed"}
           /\ pc = "done" => outcome = "up_to_date"

\* C5 witness: a second sync has ended after a first one that wrote.
C5_Witness == SecondSync /\ pc = "done" /\ prev.outcome = "written"

\* C8: a call that ends in failure leaves the target as the call found it, and
\* a target that was replaced holds text that was decoded successfully.
C8_FailureLeavesTarget ==
    /\ (outcome = "failed" \/ pc = "cleanup") => (target = target0 /\ ~moved)
    /\ moved => (parse_json5(target.text).ok /\ outcome = "written")

\* C8 witness: the validation refused the temporary file of a sync, and the
\* settings file that was there is as it was.
C8_Witness ==
    /\ pc = "done" /\ outcome = "failed" /\ content # << >> /\ ~parse_json5(content).ok
    /\ temp = NoFile /\ target.exists /\ target = target0

-----------------------------------------------------------------------------
(* Claims about the merge (SpecMerge) *)

Count(list, p) == Cardinality({i \in 1..Len(list) : list[i] = p})

\* C3: the result of the merge is the candidates that are in no position of
\* existing, in candidate order; nothing of existing is in it.
C3_MergeSelectsMissing ==
    mstep = "merged" =>
        /\ additions = NotIn(existing, candidates)
        /\ \A i \in 1..Len(additions) : \A j \in 1..Len(existing) : additions[i] # existing[j]
        /\ (\A i \in 1..Len(candidates) : candidates[i] \in Range(existing))
               => additions = << >>

\* C3 witness: of three candidates two were in existing already.
C3_Witness ==
    /\ mstep = "merged"
    /\ existing = << "a", "b" >> /\ candidates = << "b", "c", "a" >>
    /\ additions = << "c" >>

\* C10 as claimed: a string that is not in existing occurs at most once in the
\* result of the merge.
C10_Original == mstep = "merged" => \A p \in Range(additions) : Count(additions, p) <= 1

\* The list before the additions were appended to it.
ExistingBefore == SubSeq(existing, 1, Len(existing) - Len(additions))

\* C10 amended: the merge never selects a string of existing, and it keeps the
\* repetitions of the candidates: a string that is not in existing occurs in
\* the result as often as in candidates, and the merged list holds every
\* string of existing as often as before and every other string as often as
\* candidates do.
C10_DedupAgainstExistingOnly ==
    /\ mstep = "merged" =>
           \A p \in Range(candidates) :
               Count(additions, p) = IF p \in Range(existing) THEN 0 ELSE Count(candidates, p)
    /\ mstep = "appended" =>
           \A p \in Range(existing) \cup Range(candidates) :
               Count(existing, p) =
                   IF p \in Range(ExistingBefore) THEN Count(ExistingBefore, p)
                   ELSE Count(candidates, p)

\* C10 witness: a new string that the candidates hold twice was appended twice.
C10_Witness ==
    /\ mstep = "appended"
    /\ candidates = << "a", "b", "a" >>
    /\ existing = << "b", "a", "a" >>

-----------------------------------------------------------------------------
(* Claims about the scanning passes (SpecStrip, SpecCommas).  What is inside *)
(* a string is said here position by position, without the scan: a backslash *)
(* escape consumes the character after it, a quote that is not consumed      *)
(* toggles, and a position is inside a string when an odd number of toggling *)
(* quotes precedes it.                                                        *)

\* The number of backslashes that end right before position i.
BackslashesBefore(t, i) ==
    CHOOSE n \in 0..(i - 1) :
        /\ \A k \in 1..n : t[i - k] = BSL
        /\ n = i - 1 \/ t[i - n - 1] # BSL

\* The character at i is consumed by the escape before it.
Consumed(t, i) == BackslashesBefore(t, i) % 2 = 1

TogglingQuote(t, i) == t[i] = QUOTE /\ ~Consumed(t, i)

InString(t, i) == Cardinality({j \in 1..(i - 1) : TogglingQuote(t, j)}) % 2 = 1

Min(S) == CHOOSE x \in S : \A y \in S : x <= y

\* The line cut before its first position of Marks, trailing whitespace
\* trimmed; the line itself when Marks is empty.
CutAt(line, Marks) ==
    IF Marks = {} THEN line ELSE rstrip(SubSeq(line, 1, Min(Marks) - 1))

\* The positions of a "//" outside a string.
SlashesOutside(line) ==
    {i \in 1..(Len(line) - 1) : line[i] = "/" /\ line[i + 1] = "/" /\ ~InString(line, i)}

\* Those of them whose first slash is not consumed by an escape.
CommentMarks(line) == {i \in SlashesOutside(line) : ~Consumed(line, i)}

\* Every line of text cut as Cut(line) says, the lines joined again.
LinesCut(t, Cut(_)) ==
    LET lines == splitlines(t)
    IN  JoinLines([k \in 1..Len(lines) |-> Cut(lines[k])])

CutAtFirstSlashes(line) == CutAt(line, SlashesOutside(line))
CutAtFirstMark(line) == CutAt(line, CommentMarks(line))

\* C6 as claimed: every line ends before its first "//" outside a string.
C6_Original == sstep = "stripped" => scanned = LinesCut(text, CutAtFirstSlashes)

\* C6 amended: every line ends before its first "//" that is outside a string
\* and whose first slash is not consumed by a backslash escape, trailing
\* whitespace trimmed; a line without such a "//" is left as it is, so a "//"
\* inside a string is no comment marker.
C6_CommentsStripped == sstep = "stripped" => scanned = LinesCut(text, CutAtFirstMark)

\* C6 witness: a line with a "//" inside a string and a comment after it.
C6_Witness ==
    /\ sstep = "stripped" /\ text = Text_CommentAfterString
    /\ scanned = << QUOTE, "a", "/", "/", "b", QUOTE >>

\* The comma at i is followed, after whitespace only, by a closing bracket.
BeforeCloser(t, i) ==
    \E j \in (i + 1)..Len(t) :
        /\ t[j] \in {"}", "]"}
        /\ \A k \in (i + 1)..(j - 1) : t[k] \in PySpace

\* The text without the positions of Deleted.
Without(t, Deleted) ==
    LET Kept == (1..Len(t)) \ Deleted
        Nth(k) == CHOOSE i \in Kept : Cardinality({j \in Kept : j < i}) = k - 1
    IN  [k \in 1..Cardinality(Kept) |-> t[Nth(k)]]

TrailingCommasOutside(t) ==
    {i \in 1..Len(t) : t[i] = "," /\ ~InString(t, i) /\ BeforeCloser(t, i)}

\* C7 as claimed: exactly the commas outside a string that stand before a
\* closing bracket are deleted.
C7_Original == sstep = "removed" => scanned = Without(text, TrailingCommasOutside(text))

\* C7 amended: a comma is deleted if and only if it is outside a string, is not
\* consumed by a backslash escape, and is followed, after whitespace only, by
\* "]" or "}"; every other character is emitted unchanged and in order.
C7_TrailingCommasRemoved ==
    sstep = "removed" =>
        scanned = Without(text, {i \in TrailingCommasOutside(text) : ~Consumed(text, i)})

\* C7 witness: a comma before "]" inside a string is kept, the trailing one
\* outside is deleted.
C7_Witness ==
    /\ sstep = "removed" /\ text = Text_CommaInString
    /\ Len(scanned) = Len(text) - 1
    /\ scanned[4] = ","

-----------------------------------------------------------------------------
(* Claim about the codec (SpecCodec). *)

\* C1 as claimed: decoding the encoding of a tree succeeds and yields the tree.
C1_RoundTrip == cstep = "decoded" => decoded.ok /\ decoded.val = tree

\* The round trip fails on the string of one line separator.
C1_LineSeparatorLost ==
    cstep = "decoded" /\ tree = Str(<< LS >>) => ~decoded.ok

\* The round trip succeeds on every tree whose strings hold no line separator.
RECURSIVE HasLineSeparator(_)
HasLineSeparator(v) ==
    \/ \E i \in 1..Len(v.s) : v.kind = "str" /\ v.s[i] = LS
    \/ \E i \in 1..Len(v.keys) : \E j \in 1..Len(v.keys[i]) : v.keys[i][j] = LS
    \/ \E i \in 1..Len(v.items) : HasLineSeparator(v.items[i])

C1_RoundTripWithoutSeparators ==
    cstep = "decoded" /\ ~HasLineSeparator(tree) => decoded.ok /\ decoded.val = tree

-----------------------------------------------------------------------------
(* Further claims about the sync and the writer (Spec) *)

C12_Original == (call = "write" /\ ~Encodable(current_settings)) => temp = NoFile

\* C12 amended: a write of a document that cannot be encoded never touches the
\* target and never writes any content: the temporary file, created before
\* the encoding, stays empty, is seen only until the failure is handled, and is
\* gone when the call has returned failure.
C12_EncodingFailureWritesNothing ==
    (call = "write" /\ ~Encodable(current_settings)) =>
        /\ target = target0 /\ ~moved /\ content = << >>
        /\ temp.exists => (temp.text = << >> /\ pc \in {"dumps", "cleanup", "crashed"})
        /\ pc = "done" => (outcome = "failed" /\ temp = NoFile)

\* C12 witness: the encoding of a document with a set has failed, the empty
\* temporary file is still there.
C12_Witness ==
    /\ call = "write" /\ ~Encodable(current_settings)
    /\ pc = "cleanup" /\ temp = File(<< >>)

\* A sync without update_existing that found the settings file.
SkippingSync == call = "sync" /\ target0.exists /\ ~update_existing

\* A sync that has ended on a settings file that was not there, with no step of
\* the file system having failed.
EndedOnMissing ==
    call = "sync" /\ ~target0.exists /\ pc = "done" /\ outcome \notin {"failed", "raised"}

\* C14 as claimed: a sync without update_existing that found the file has
\* returned success with nothing changed, and a sync that found no file has
\* created it.
C14_Original ==
    /\ SkippingSync => (pc = "done" /\ outcome = "skipped" /\ target = target0)
    /\ EndedOnMissing => target.exists

\* C14 amended: a sync without update_existing that found the file returns
\* success at once with the file system as it was; a sync that found no file
\* creates it, with or without update_existing, when there is a global pattern
\* and dry-run is off, and creates nothing when there is no global pattern or
\* dry-run is on.
C14_SkipsExistingCreatesMissing ==
    /\ SkippingSync =>
           /\ pc = "done" /\ outcome = "skipped"
           /\ target = target0 /\ dir_exists = dir0 /\ temp = NoFile /\ ~moved
    /\ (EndedOnMissing /\ global_patterns # << >> /\ ~dry_run) =>
           /\ outcome = "written" /\ target.exists
           /\ ListIn(target) = PatternNodes(global_patterns)
    /\ (EndedOnMissing /\ (global_patterns = << >> \/ dry_run)) =>
           /\ outcome \in {"no_patterns", "dry_run"}
           /\ ~target.exists /\ dir_exists = dir0 /\ temp = NoFile

\* C14 witness: a sync without update_existing has created the settings file.
C14_Witness ==
    /\ EndedOnMissing /\ ~update_existing /\ outcome = "written" /\ target.exists

\* C15: in dry-run mode a sync, at every step of it, has the settings file, the
\* directory and the temporary file as the call found them (so a sequence of
\* syncs leaves them as the first one found them), never gets past the merge,
\* and returns success when the merge found patterns to add.
C15_DryRunChangesNothing ==
    (dry_run /\ call = "sync") =>
        /\ target = target0 /\ dir_exists = dir0 /\ temp = NoFile /\ ~moved
        /\ pc \in {"update", "done", "crashed"}
        /\ (pc = "done" /\ patterns_to_add # << >>) => outcome = "dry_run"
        /\ (prev.call = "sync" /\ prev.outcome = "dry_run" /\ prev.global_patterns = global_patterns
            /\ pc = "done" /\ update_existing) => outcome = "dry_run"

\* C15 witness: a dry-run sync on a missing directory had patterns to add and
\* has returned, the directory still missing.
C15_Witness ==
    /\ dry_run /\ call = "sync" /\ pc = "done" /\ outcome = "dry_run"
    /\ patterns_to_add # << >> /\ ~dir_exists /\ ~target.exists

\* The sync found a document with a list of strings for its exclusions, and
\* every global pattern is in that list.
AllPresent ==
    /\ FoundDocument
    /\ LET rd == parse_json5(target0.text)
       IN  /\ rd.ok /\ rd.val.kind = "obj"
           /\ current_exclusions_of(rd.val).kind = "arr"
           /\ \A i \in 1..Len(ListIn(target0)) : ListIn(target0)[i].kind = "str"
    /\ \A i \in 1..Len(global_patterns) :
           \E j \in 1..Len(ListIn(target0)) : ListIn(target0)[j] = Str(global_patterns[i])

\* C16: a sync with update_existing that has no global pattern, or whose
\* global patterns are all in the exclusion list it found, never gets to the
\* write (no directory made, no temporary file, no rename, the settings file
\* as it was) and returns success.
C16_NothingToAddWritesNothing ==
    (call = "sync" /\ update_existing /\ (global_patterns = << >> \/ AllPresent)) =>
        /\ target = target0 /\ dir_exists = dir0 /\ temp = NoFile /\ ~moved
        /\ pc \in {"update", "done", "crashed"}
        /\ pc = "done" => outcome = (IF global_patterns = << >> THEN "no_patterns"
                                                                ELSE "up_to_date")

\* C16 witness: the document with comments held the one global pattern; the
\* sync has returned and the comments are still there.
C16_Witness ==
    /\ call = "sync" /\ update_existing /\ pc = "done" /\ outcome = "up_to_date"
    /\ global_patterns = << PatternA >>
    /\ target0 = File(Doc_Json5) /\ target = File(Doc_Json5)

\* A sync with update_existing that found a settings file whose text does not
\* decode.
SyncOnMalformed ==
    /\ call = "sync" /\ update_existing
    /\ FoundDocument /\ ~parse_json5(target0.text).ok

-----------------------------------------------------------------------------
(* Claim about the reader of the ignore file (SpecIgnore) *)

\* The line without the whitespace around it, said by positions.
Trimmed(line) ==
    LET Solid == {i \in 1..Len(line) : line[i] \notin PySpace}
    IN  IF Solid = {} THEN << >>
        ELSE SubSeq(line, CHOOSE i \in Solid : \A j \in Solid : i <= j,
                          CHOOSE i \in Solid : \A j \in Solid : j <= i)

HasMarker(p) == Len(p) >= 3 /\ SubSeq(p, 1, 3) = GlobMarker

IsPatternLine(line) == line # << >> /\ line[1] # "#"

\* The patterns the lines of a text stand for, in line order.
ExpectedPatterns(t) ==
    LET lines == splitlines(t)
        kept == SelectSeq([k \in 1..Len(lines) |-> Trimmed(lines[k])], IsPatternLine)
    IN  [k \in 1..Len(kept) |-> IF HasMarker(kept[k]) THEN kept[k] ELSE GlobMarker \o kept[k]]

\* C13: the list returned is, line by line and in line order, the trimmed line
\* with "**/" before it unless it has it already, the empty lines and the
\* lines starting with "#" left out; so every pattern starts with "**/", and
\* one that starts with "**/**/" was such a line; a file that is not there
\* gives the empty list.
C13_PatternsOfLines ==
    gstep = "read" =>
        /\ ~gitignore.exists => patterns = << >>
        /\ (gitignore.exists /\ gitignore.readable) =>
               /\ patterns = ExpectedPatterns(gitignore.text)
               /\ \A k \in 1..Len(patterns) :
                      /\ HasMarker(patterns[k])
                      /\ HasMarker(SubSeq(patterns[k], 4, Len(patterns[k]))) =>
                             \E i \in 1..Len(splitlines(gitignore.text)) :
                                 Trimmed(splitlines(gitignore.text)[i]) = patterns[k]

\* C13 witness: the lines of scenario 5 gave three patterns, one prefixed, one
\* kept, one trimmed and prefixed.
C13_Witness ==
    /\ gstep = "read" /\ gitignore = File(Text_Scenario5)
    /\ Len(patterns) = 3
    /\ patterns[2] = << "*", "*", "/", "d", "i", "s", "t", "/" >>
    /\ patterns[3] = << "*", "*", "/", "*", ".", "l", "o", "g" >>

-----------------------------------------------------------------------------
(* Claim about two syncs at once (SpecRace) *)

\* The document invocation p wrote: what it read, with its additions appended.
WroteOwnDocument(p) ==
    /\ proc[p].content = json_dumps(proc[p].current_settings)
    /\ parse_json5(proc[p].content).ok
    /\ parse_json5(proc[p].content).val = proc[p].current_settings
    /\ ListIn(File(proc[p].content))
           = ListIn(proc[p].found)
                 \o NotIn(ListIn(proc[p].found), PatternNodes(proc[p].global_patterns))

\* C18: at every point of every interleaving the settings file is what it was
\* at the start, as long as nobody has renamed, and after that it is the whole
\* document of the invocation that renamed last: what that invocation read
\* with its own additions, and nothing of the other's that it did not read.
C18_LastWriterWins ==
    /\ last_rename = 0 => race_target = race_target0
    /\ \A p \in Procs :
           last_rename = p => (race_target = File(proc[p].content) /\ WroteOwnDocument(p))
    /\ \A p \in Procs :
           proc[p].temp.exists => proc[p].temp.text \in {<< >>, FirstPart(proc[p].content),
                                                         proc[p].content}

\* C18 witness: both invocations have renamed, the second last, and the file
\* lacks a pattern the first one added.
C18_Witness ==
    /\ proc[1].outcome = "written" /\ proc[2].outcome = "written" /\ last_rename = 2
    /\ \E i \in 1..Len(proc[1].global_patterns) :
           /\ Str(proc[1].global_patterns[i]) \notin Range(ListIn(race_target0))
           /\ Str(proc[1].global_patterns[i]) \notin Range(ListIn(race_target))

-----------------------------------------------------------------------------
(* Claim about the decoder (SpecDecode) *)

WhitespaceOnly(t) == {i \in 1..Len(t) : t[i] \notin PySpace} = {}

\* The text after comment stripping and trailing-comma removal.
Cleaned(t) == remove_trailing_commas(strip_comments(t))

\* One of the constants NaN, Infinity, -Infinity stands outside the strings.
FloatConstantOutside(t) ==
    \E i \in 1..Len(t) :
        ~InString(t, i) /\ (StartsWith(t, i, NaNChars) \/ StartsWith(t, i, InfinityChars))

\* Valid strict syntax: what json.loads takes, the float constants, which the
\* standard grammar does not have, left out.
StrictSyntax(t) == json_loads(t).ok /\ ~FloatConstantOutside(t)

\* Every line is empty or a comment once trimmed, and one of them is a comment.
CommentsOnly(t) ==
    LET lines == splitlines(t)
        IsComment(line) == Len(line) >= 2 /\ line[1] = "/" /\ line[2] = "/"
    IN  /\ \A k \in 1..Len(lines) : Trimmed(lines[k]) = << >> \/ IsComment(Trimmed(lines[k]))
        /\ \E k \in 1..Len(lines) : IsComment(Trimmed(lines[k]))

\* C19 as claimed: a whitespace-only text decodes to the empty object, and any
\* other text that is not valid strict syntax once cleaned fails to decode.
C19_Original ==
    sstep = "decoded" =>
        /\ WhitespaceOnly(text) => (decoded.ok /\ decoded.val = EmptyObj)
        /\ (~WhitespaceOnly(text) /\ ~StrictSyntax(Cleaned(text))) => ~decoded.ok

\* What the decoder does: a whitespace-only text decodes to the empty object;
\* any other text decodes exactly when json.loads takes the cleaned text, which
\* is when it is valid strict syntax or differs from that only by the
\* constants NaN, Infinity and -Infinity; a text of comments only fails.
C19_DecodeOfText ==
    sstep = "decoded" =>
        /\ WhitespaceOnly(text) => (decoded.ok /\ decoded.val = EmptyObj)
        /\ ~WhitespaceOnly(text) =>
               /\ decoded.ok = json_loads(Cleaned(text)).ok
               /\ decoded.ok => decoded.val = json_loads(Cleaned(text)).val
               /\ StrictSyntax(Cleaned(text)) => decoded.ok
               /\ CommentsOnly(text) => ~decoded.ok

\* The text {"a": NaN} decodes.
C19_NaNDecodes == (sstep = "decoded" /\ text = Text_NaN) => decoded.ok

-----------------------------------------------------------------------------
(* Claim about the string tracking of the two passes (SpecTracking) *)

\* The variables of the comment scan of a line when it comes to position i.
CommentScanAt(line, i) ==
    comment_loop(line, 1, i - 1, [in_string |-> FALSE, escaped |-> FALSE, comment_pos |-> 0])

\* The variables of the comma scan of a text when it comes to position i.
CommaScanAt(t, i) ==
    rtc_loop(t, 1, i - 1, [in_string |-> FALSE, escaped |-> FALSE, result |-> << >>])

\* C20: in both passes, when the scan comes to a position, its escape flag is
\* set exactly when the character there is consumed by a backslash (an odd
\* run of backslashes ends right before it), and its in-string flag is set
\* exactly when an odd number of quotes that are not consumed came before; for
\* the comment pass up to the comment it finds.  So after "\\" the quote
\* closes the string and the comment or trailing comma behind it is taken
\* away, and after \" the string goes on and both are kept.
C20_StringTracking ==
    /\ sstep = "stripped" =>
           /\ \A k \in 1..Len(splitlines(text)) :
                  LET line == splitlines(text)[k]
                  IN  \A i \in 1..(Len(line) + 1) :
                          CommentScanAt(line, i).comment_pos = 0 =>
                              /\ CommentScanAt(line, i).escaped = Consumed(line, i)
                              /\ CommentScanAt(line, i).in_string = InString(line, i)
           /\ text = Text_EscapedBackslash => scanned = << QUOTE, BSL, BSL, QUOTE >>
           /\ text = Text_EscapedQuote => scanned = text
    /\ sstep = "removed" =>
           /\ \A i \in 1..(Len(text) + 1) :
                  /\ CommaScanAt(text, i).escaped = Consumed(text, i)
                  /\ CommaScanAt(text, i).in_string = InString(text, i)
           /\ text = Text_CommaAfterEscapedBackslash => scanned = << QUOTE, BSL, BSL, QUOTE, "}" >>
           /\ text = Text_CommaAfterEscapedQuote => scanned = text

\* C20 witness: the comment after a string that ends in an escaped backslash
\* has been stripped.
C20_Witness ==
    /\ sstep = "stripped" /\ text = Text_EscapedBackslash
    /\ scanned = << QUOTE, BSL, BSL, QUOTE >>

-----------------------------------------------------------------------------
(* Claim about the temporary file of the writer (Spec) *)

\* The writer has returned: True ("written") or False ("failed").
WriterReturned == pc = "done" /\ outcome \in {"written", "failed"}

\* The steps of the writer between the creation of the temporary file and the
\* return, and the state of a process killed on the way.
WriterSteps == {"dumps", "write", "flush", "validate", "move", "cleanup", "crashed"}

\* C21: a temporary file is only ever in the directory of the target (the
\* writer asked it there, and the directory exists) and only while the writer
\* is between its creation and its return; once the writer has returned, True
\* or False, there is none: after True it was renamed onto the target, which
\* holds the whole content, and after False (from the encoding, the write, the
\* validation or the rename) it was removed and the target is as it was.
C21_NoTemporaryFileLeft ==
    /\ temp.exists => (temp_dir = "parent" /\ dir_exists /\ pc \in WriterSteps)
    /\ WriterReturned => temp = NoFile
    /\ (pc = "done" /\ outcome = "written") => (moved /\ target = File(content))
    /\ (pc = "done" /\ outcome = "failed") => (~moved /\ target = target0)

\* C21 witness: the writer has returned False after its temporary file had
\* received content that decodes (so the flush, the read-back or the rename
\* failed), and the temporary file is gone.
C21_Witness ==
    /\ pc = "done" /\ outcome = "failed" /\ temp_dir = "parent" /\ dir_exists
    /\ content # << >> /\ parse_json5(content).ok
    /\ temp = NoFile /\ target = target0

-----------------------------------------------------------------------------
(* Claim about a settings file that cannot be read (Spec) *)

\* A sync with update_existing, dry-run off and at least one global pattern,
\* that found a settings file whose read_text raises.
SyncOnUnreadable ==
    /\ call = "sync" /\ update_existing /\ ~dry_run /\ global_patterns # << >>
    /\ target0.exists /\ ~target0.readable

\* The document with file_scan_exclusions as its only key, holding the global
\* patterns.
OnlyGlobalPatterns == Obj(<< FSE >>, << Arr(PatternNodes(global_patterns)) >>)

\* C22: read_zed_settings gives the empty object for a file that is there and
\* cannot be read, so the sync takes every global pattern as missing and goes
\* on to the write with a document of that one key; when no step of the write
\* fails it returns success with the file replaced by that document, and when
\* one fails the file is as it was.
C22_UnreadableReplaced ==
    SyncOnUnreadable =>
        /\ read_zed_settings(target0).ok /\ read_zed_settings(target0).val = EmptyObj
        /\ pc \notin {"update", "crashed"} =>
               /\ patterns_to_add = PatternNodes(global_patterns)
               /\ current_settings = OnlyGlobalPatterns
        /\ (pc = "done" /\ outcome # "failed") =>
               /\ outcome = "written" /\ moved
               /\ target = File(json_dumps(OnlyGlobalPatterns))
               /\ parse_json5(target.text).ok
               /\ parse_json5(target.text).val = OnlyGlobalPatterns
        /\ (pc = "done" /\ outcome = "failed") => target = target0

\* C22 witness: the sync found a file it could not read and has replaced it;
\* the file can now be read and holds the one key.
C22_Witness ==
    /\ SyncOnUnreadable /\ pc = "done" /\ outcome = "written"
    /\ target0 = Unreadable(Doc_Duplicates)
    /\ global_patterns = << PatternB, PatternA >>
    /\ target.readable /\ parse_json5(target.text).val.keys = << FSE >>

=============================================================================
